---- MODULE Spec2Model ----
(***************************************************************************)
(* Model of the realtime voice agent: RealTimeAgent (agent_websocket.py)   *)
(* and AudioHandler (audio.py).                                            *)
(*                                                                         *)
(* Three flows run concurrently:                                           *)
(*   - the transport's callback flow (run_forever): __on_open, then        *)
(*     __on_message / __on_error one at a time, then teardown;             *)
(*   - the capture thread started by __on_open, running __listen;          *)
(*   - one playback thread per play_audio call.                            *)
(* Each action is one step of one flow that touches shared state once.     *)
(***************************************************************************)
EXTENDS Integers, Sequences, FiniteSets, TLC

\* ------------------------------------------------------------- bounds
\* Frames the capture device yields before the model stops reading.
MaxFrames == 2
\* response.audio.delta messages delivered (one playback thread each).
MaxDeltas == 2
\* Capture streams a caller of AudioHandler may have open at once.
MaxStreams == 2
\* Times a caller of AudioHandler stops an already stopped recording.
MaxStaleStops == 2

\* ---------------------------------------------------------- base64
\* The '=' padding character, outside the 0..63 alphabet indices.
Pad == 64

RECURSIVE b64encode(_)
\* base64.b64encode: 3 bytes -> 4 alphabet indices, '=' padded.
b64encode(bs) ==
    IF Len(bs) = 0 THEN <<>>
    ELSE IF Len(bs) = 1 THEN
        << bs[1] \div 4, (bs[1] % 4) * 16, Pad, Pad >>
    ELSE IF Len(bs) = 2 THEN
        << bs[1] \div 4, (bs[1] % 4) * 16 + bs[2] \div 16, (bs[2] % 16) * 4, Pad >>
    ELSE
        << bs[1] \div 4, (bs[1] % 4) * 16 + bs[2] \div 16,
           (bs[2] % 16) * 4 + bs[3] \div 64, bs[3] % 64 >>
        \o b64encode(SubSeq(bs, 4, Len(bs)))

\* b64decode raises binascii.Error on text whose length is no multiple of 4.
b64valid(cs) == Len(cs) % 4 = 0

RECURSIVE b64decode_unpadded(_)
\* Faulty variant of b64decode: the '=' padding is decoded as data.
b64decode_unpadded(cs) ==
    IF Len(cs) < 4 THEN <<>>
    ELSE
        << cs[1] * 4 + cs[2] \div 16, (cs[2] % 16) * 16 + (cs[3] % 64) \div 4,
           (cs[3] % 4) * 64 + (cs[4] % 64) >>
        \o b64decode_unpadded(SubSeq(cs, 5, Len(cs)))

RECURSIVE b64decode(_)
\* base64.b64decode: 4 alphabet indices -> up to 3 bytes.
b64decode(cs) ==
    IF Len(cs) < 4 THEN <<>>
    ELSE
        (IF cs[3] = Pad THEN << cs[1] * 4 + cs[2] \div 16 >>
         ELSE IF cs[4] = Pad THEN
            << cs[1] * 4 + cs[2] \div 16, (cs[2] % 16) * 16 + cs[3] \div 4 >>
         ELSE
            << cs[1] * 4 + cs[2] \div 16, (cs[2] % 16) * 16 + cs[3] \div 4,
               (cs[3] % 4) * 64 + cs[4] >>)
        \o b64decode(SubSeq(cs, 5, Len(cs)))

\* ------------------------------------------------------------ inputs
\* The frames the capture device yields, read after read (raw PCM bytes,
\* shortened); the sequence repeats.
DeviceFrames == << <<1, 0>>, <<255, 127, 3>>, <<16, 32, 48, 64>> >>

\* Decoded audio fragments the server can stream.
Fragments == { <<72, 105>>, <<0, 255, 16, 7>> }

\* Event types __on_message has a branch for.
KnownTypes ==
    { "response.audio.delta", "response.audio.done", "response.done",
      "conversation.item.created", "input_audio_buffer.speech_started",
      "input_audio_buffer.speech_stopped", "session.created", "session.updated" }

\* A type value no branch names.
UnknownTypes == { "rate_limits.updated" }

\* An inbound text message: wellformed says whether json.loads accepts it,
\* keys the members of the decoded object, type and delta their values.
Msg(t, ks, d) == [wellformed |-> TRUE, keys |-> ks, type |-> t, delta |-> d]

\* Messages the handler cannot read: text that is no JSON, an object with no
\* "type" member, an audio delta with no "delta" member.
MalformedMessages ==
    { [wellformed |-> FALSE, keys |-> {}, type |-> "", delta |-> <<>>],
      Msg("", {}, <<>>),
      Msg("response.audio.delta", {"type"}, <<>>) }

InboundMessages ==
    { Msg(t, {"type"}, <<>>) : t \in (KnownTypes \ {"response.audio.delta"}) \cup UnknownTypes }
    \cup { Msg("response.audio.delta", {"type", "delta"}, b64encode(f)) : f \in Fragments }
    \cup MalformedMessages

\* ------------------------------------------------------------- state
VARIABLES
    wsState,            \* the connection as run_forever holds it: open, errored, closed
    openPc,             \* position of the callback flow inside __on_open
    sent,               \* the messages ws.send has put on the wire, in order
    listen_event,       \* self.listen_event: absent (attribute not yet set), clear, set
    processing_thread,  \* position of the capture thread inside __listen
    chunk,              \* __listen's local chunk (<<>> is None / empty)
    is_recording,       \* AudioHandler.is_recording
    stream,             \* AudioHandler.stream: None, open, closed
    audio_buffer,       \* AudioHandler.audio_buffer
    openStreams,        \* capture streams opened on the device and not yet closed
    staleStops,         \* stop_stream()/close() rounds made on an already closed stream
    playback,           \* the playback threads, in the order play_audio started them
    sink,               \* the buffers written to the output device, in order
    lastEvent,          \* type of the inbound message handled last ("" before any)
    lastOutcome,        \* how that handler ended: none, returned, raised
    framesRead,         \* number of device reads done by record_chunk
    chunkReadBlocked,   \* whether the gate was clear when chunk was read
    fwdBlocked,         \* appends sent whose frame was read while the gate was clear
    sendFailed,         \* whether a send of the capture loop has raised
    blockedReads,       \* device reads made since the gate was last blocked, while it is
    blockedSends,       \* appends sent since the gate was last blocked, while it is
    resume              \* none; rearmed: response.done was handled while the loop was
                        \* suspended at the blocked gate; sent: a frame was sent since

vars == << wsState, openPc, sent, listen_event, processing_thread, chunk,
           is_recording, stream, audio_buffer, playback, sink, lastEvent,
           lastOutcome, framesRead, chunkReadBlocked, fwdBlocked, sendFailed,
           openStreams, staleStops, blockedReads, blockedSends, resume >>

audioVars == << is_recording, stream, audio_buffer, openStreams, staleStops >>
ghostIn == << lastEvent, lastOutcome >>
blockedVars == << blockedReads, blockedSends, resume >>
captureVars == << processing_thread, chunk, framesRead, chunkReadBlocked,
                  fwdBlocked, sendFailed, blockedVars >>

Init ==
    /\ wsState = "open"
    /\ openPc = "send"
    /\ sent = <<>>
    /\ listen_event = "absent"
    /\ processing_thread = "notStarted"
    /\ chunk = <<>>
    /\ is_recording = FALSE
    /\ stream = "None"
    /\ audio_buffer = <<>>
    /\ playback = <<>>
    /\ sink = <<>>
    /\ lastEvent = ""
    /\ lastOutcome = "none"
    /\ framesRead = 0
    /\ chunkReadBlocked = FALSE
    /\ fwdBlocked = 0
    /\ sendFailed = FALSE
    /\ openStreams = 0
    /\ staleStops = 0
    /\ blockedReads = 0
    /\ blockedSends = 0
    /\ resume = "none"

\* ------------------------------------------------------- transport
\* ws.send: succeeds on an open connection, raises
\* WebSocketConnectionClosedException on a closed one; once an error has been
\* reported and until teardown the socket may or may not still take data.
ws_send_outcomes ==
    IF wsState = "open" THEN {"ok"}
    ELSE IF wsState = "closed" THEN {"raise"}
    ELSE {"ok", "raise"}

\* __send_event(event) with outcome o: the wire after the call.
send_event(event, o) == IF o = "ok" THEN Append(sent, event) ELSE sent

SessionUpdate == [type |-> "session.update", payload |-> <<>>]
AudioAppend(c) == [type |-> "input_audio_buffer.append", payload |-> b64encode(c)]

\* Faulty variant of OnOpenSend: the session.update send is left out before the
\* capture thread is started.
OnOpenSend_unsent ==
    /\ openPc = "send"
    /\ openPc' = "thread"
    /\ UNCHANGED << wsState, sent, listen_event, audioVars, playback, sink, ghostIn,
                    captureVars >>

\* ------------------------------------------------------- __on_open
OnOpenSend ==
    /\ openPc = "send"
    /\ \E o \in ws_send_outcomes :
        /\ sent' = send_event(SessionUpdate, o)
        /\ openPc' = IF o = "ok" THEN "thread" ELSE "raised"
    /\ UNCHANGED << wsState, listen_event, audioVars, playback, sink, ghostIn, captureVars >>

OnOpenStartThread ==
    /\ openPc = "thread"
    /\ processing_thread' = "start_recording"
    /\ openPc' = "event"
    /\ UNCHANGED << wsState, sent, listen_event, chunk, audioVars, playback, sink,
                    ghostIn, framesRead, chunkReadBlocked, fwdBlocked, sendFailed,
                    blockedVars >>

OnOpenCreateEvent ==
    /\ openPc = "event"
    /\ listen_event' = "clear"
    /\ openPc' = "set"
    /\ UNCHANGED << wsState, sent, audioVars, playback, sink, ghostIn, captureVars >>

OnOpenSetEvent ==
    /\ openPc = "set"
    /\ listen_event' = "set"
    /\ openPc' = "done"
    /\ UNCHANGED << wsState, sent, audioVars, playback, sink, ghostIn, captureVars >>

\* ---------------------------------------------------- AudioHandler
\* Faulty variant of stop_audio_stream: the guard is inverted, so a stream that
\* exists is left as it is.
stop_audio_stream_inverted(s) == IF s = "None" THEN "closed" ELSE s

\* stop_audio_stream: stop_stream() and close() on whatever self.stream holds.
stop_audio_stream(s) == IF s # "None" THEN "closed" ELSE s

\* start_recording(): is_recording = True, audio_buffer = b'', then
\* start_audio_stream(): self.stream = self.p.open(input=True), whatever
\* self.stream held before.
start_recording ==
    /\ is_recording' = TRUE
    /\ audio_buffer' = <<>>
    /\ stream' = "open"
    /\ openStreams' = openStreams + 1
    /\ UNCHANGED staleStops

\* stop_recording(): is_recording = False, then stop_audio_stream(). self.stream
\* keeps the closed stream, so a later call stops and closes it again; the
\* stream object takes that without raising and without touching the device.
stop_recording ==
    /\ is_recording' = FALSE
    /\ stream' = stop_audio_stream(stream)
    /\ openStreams' = IF stream = "open" THEN openStreams - 1 ELSE openStreams
    /\ staleStops' = IF stream = "closed" THEN staleStops + 1 ELSE staleStops
    /\ UNCHANGED audio_buffer

\* self.stream.read(self.chunk_size): the frame the device yields on read number n + 1.
stream_read(n) == DeviceFrames[(n % Len(DeviceFrames)) + 1]

\* record_chunk(): with a stream and is_recording, read one frame from the
\* device, append it to audio_buffer and return it; otherwise return None.
record_chunk ==
    IF stream # "None" /\ is_recording
    THEN /\ stream = "open"
         /\ framesRead < MaxFrames
         /\ audio_buffer' = audio_buffer \o stream_read(framesRead)
         /\ chunk' = stream_read(framesRead)
         /\ framesRead' = framesRead + 1
    ELSE /\ chunk' = <<>>
         /\ UNCHANGED << audio_buffer, framesRead >>

\* Faulty variant of listen_after_send: the exception of a failed send is swallowed
\* inside the loop, which goes on.
listen_after_send_swallowed(o) == "wait"

\* Where __listen goes after __send_event: back to the gate, or, when the send
\* raised, to the except clause around the loop.
listen_after_send(o) == IF o = "ok" THEN "wait" ELSE "except"

\* ------------------------------------------------------- __listen
ListenStartRecording ==
    /\ processing_thread = "start_recording"
    /\ start_recording
    /\ processing_thread' = "wait"
    /\ UNCHANGED << wsState, openPc, sent, listen_event, chunk, playback, sink,
                    ghostIn, framesRead, chunkReadBlocked, fwdBlocked, sendFailed,
                    blockedVars >>

\* Faulty variant of ListenWait: the wait consumes the signal (an auto-reset
\* event), so the capture thread itself clears the gate.
ListenWait_autoreset ==
    /\ processing_thread = "wait"
    /\ listen_event # "clear"
    /\ processing_thread' = IF listen_event = "set" THEN "record" ELSE "except"
    /\ listen_event' = IF listen_event = "set" THEN "clear" ELSE listen_event
    /\ UNCHANGED << wsState, openPc, sent, chunk, audioVars, playback,
                    sink, ghostIn, framesRead, chunkReadBlocked, fwdBlocked, sendFailed,
                    blockedVars >>

\* Faulty variant of ListenWait: the gate is looked at but not waited on, so
\* the loop goes on while it is clear.
ListenWait_nonblocking ==
    /\ processing_thread = "wait"
    /\ processing_thread' = IF listen_event = "absent" THEN "except" ELSE "record"
    /\ UNCHANGED << wsState, openPc, sent, listen_event, chunk, audioVars, playback,
                    sink, ghostIn, framesRead, chunkReadBlocked, fwdBlocked, sendFailed,
                    blockedVars >>

\* Faulty variant of ListenWait: a set() made by the message handler while the
\* thread is already waiting does not wake it.
ListenWait_missed_wakeup ==
    /\ processing_thread = "wait"
    /\ listen_event # "clear"
    /\ resume # "rearmed"
    /\ processing_thread' = IF listen_event = "set" THEN "record" ELSE "except"
    /\ UNCHANGED << wsState, openPc, sent, listen_event, chunk, audioVars, playback,
                    sink, ghostIn, framesRead, chunkReadBlocked, fwdBlocked, sendFailed,
                    blockedVars >>

\* listen_event.wait(): returns once the event is set; AttributeError while
\* the attribute does not exist yet.
ListenWait ==
    /\ processing_thread = "wait"
    /\ listen_event # "clear"
    /\ processing_thread' = IF listen_event = "set" THEN "record" ELSE "except"
    /\ UNCHANGED << wsState, openPc, sent, listen_event, chunk, audioVars, playback,
                    sink, ghostIn, framesRead, chunkReadBlocked, fwdBlocked, sendFailed,
                    blockedVars >>

\* record_chunk: a device read that yields a frame.
ListenRecord ==
    /\ processing_thread = "record"
    /\ record_chunk
    /\ IF framesRead' # framesRead
       THEN /\ chunkReadBlocked' = (listen_event = "clear")
            /\ blockedReads' = IF listen_event = "clear"
                               THEN blockedReads + 1 ELSE blockedReads
       ELSE UNCHANGED << chunkReadBlocked, blockedReads >>
    /\ processing_thread' = "send"
    /\ UNCHANGED << wsState, openPc, sent, listen_event, is_recording, stream,
                    openStreams, staleStops, playback, sink, ghostIn, fwdBlocked,
                    sendFailed, blockedSends, resume >>

\* record_chunk: the device read raises (input overflow, stream not open).
ListenRecordError ==
    /\ processing_thread = "record"
    /\ stream # "None" /\ is_recording
    /\ processing_thread' = "except"
    /\ UNCHANGED << wsState, openPc, sent, listen_event, chunk, audioVars, playback,
                    sink, ghostIn, framesRead, chunkReadBlocked, fwdBlocked, sendFailed,
                    blockedVars >>

\* if chunk: encode and send; else: break.
ListenSend ==
    /\ processing_thread = "send"
    /\ IF chunk # <<>>
       THEN \E o \in ws_send_outcomes :
            /\ sent' = send_event(AudioAppend(chunk), o)
            /\ processing_thread' = listen_after_send(o)
            /\ sendFailed' = (sendFailed \/ o = "raise")
            /\ fwdBlocked' = IF o = "ok" /\ chunkReadBlocked
                             THEN fwdBlocked + 1 ELSE fwdBlocked
            /\ blockedSends' = IF o = "ok" /\ listen_event = "clear"
                               THEN blockedSends + 1 ELSE blockedSends
            /\ resume' = IF o = "ok" /\ resume = "rearmed" THEN "sent" ELSE resume
       ELSE /\ processing_thread' = "finally"
            /\ UNCHANGED << sent, sendFailed, fwdBlocked, blockedSends, resume >>
    /\ UNCHANGED << wsState, openPc, listen_event, chunk, audioVars, playback, sink,
                    ghostIn, framesRead, chunkReadBlocked, blockedReads >>

\* except Exception: stop_recording().
ListenExcept ==
    /\ processing_thread = "except"
    /\ stop_recording
    /\ processing_thread' = "finally"
    /\ UNCHANGED << wsState, openPc, sent, listen_event, chunk, playback, sink,
                    ghostIn, framesRead, chunkReadBlocked, fwdBlocked, sendFailed,
                    blockedVars >>

\* finally: stop_recording().
ListenFinally ==
    /\ processing_thread = "finally"
    /\ stop_recording
    /\ processing_thread' = "done"
    /\ UNCHANGED << wsState, openPc, sent, listen_event, chunk, playback, sink,
                    ghostIn, framesRead, chunkReadBlocked, fwdBlocked, sendFailed,
                    blockedVars >>

\* ----------------------------------------------------- __on_message
AudioDelta == "response.audio.delta"

\* Faulty variant of on_message_raises: the else branch rejects a type it does not know.
on_message_raises_unknown(m) ==
    \/ ~m.wellformed
    \/ "type" \notin m.keys
    \/ m.type \notin KnownTypes
    \/ /\ m.type = "response.audio.delta"
       /\ ("delta" \notin m.keys \/ ~b64valid(m.delta))

\* Whether handling m raises: json.loads on undecodable text, event["type"] or
\* event["delta"] on a missing member, b64decode on bad padding.
on_message_raises(m) ==
    \/ ~m.wellformed
    \/ "type" \notin m.keys
    \/ /\ m.type = AudioDelta
       /\ ("delta" \notin m.keys \/ ~b64valid(m.delta))

\* Faulty variant of on_message_gate: the two VAD branches exchanged (speech_started
\* blocks, speech_stopped re-arms).
on_message_gate_swapped(t, g) ==
    IF t = "response.done" THEN "set"
    ELSE IF t = "input_audio_buffer.speech_started" THEN "clear"
    ELSE IF t = "input_audio_buffer.speech_stopped" THEN "set"
    ELSE g

\* Faulty variant of on_message_gate: the speech_stopped branch only logs.
on_message_gate_no_clear(t, g) ==
    IF t = "response.done" THEN "set" ELSE g

\* Faulty variant of on_message_gate: the response.done branch only logs.
on_message_gate_no_rearm(t, g) ==
    IF t = "input_audio_buffer.speech_stopped" THEN "clear" ELSE g

\* The turn gate after the branch for an event of type t has run on gate g.
on_message_gate(t, g) ==
    IF t = "response.done" THEN "set"
    ELSE IF t = "input_audio_buffer.speech_stopped" THEN "clear"
    ELSE g

\* play_audio(audio_data): start one more playback thread.
play_audio(audio_data) == Append(playback, [audio_data |-> audio_data, pc |-> "started"])

\* The playback threads after the branch for message m has run.
on_message_playback(m) ==
    IF m.type = AudioDelta THEN play_audio(b64decode(m.delta)) ELSE playback

\* Faulty variant of OnMessage: playback is joined, so the handler does not
\* run while a device write is outstanding.
OnMessage_synchronous(m) ==
    /\ openPc = "done"
    /\ wsState = "open"
    /\ \A i \in DOMAIN playback : playback[i].pc = "done"
    /\ (m.wellformed /\ m.type = AudioDelta) => Len(playback) < MaxDeltas
    /\ IF on_message_raises(m)
       THEN /\ lastOutcome' = "raised"
            /\ lastEvent' = IF m.wellformed /\ "type" \in m.keys THEN m.type ELSE "?"
            /\ UNCHANGED << listen_event, playback >>
       ELSE /\ lastOutcome' = "returned"
            /\ lastEvent' = m.type
            /\ listen_event' = on_message_gate(m.type, listen_event)
            /\ playback' = on_message_playback(m)
    /\ IF listen_event' # listen_event
       THEN blockedReads' = 0 /\ blockedSends' = 0
       ELSE UNCHANGED << blockedReads, blockedSends >>
    /\ resume' = IF processing_thread = "wait" /\ listen_event = "clear"
                    /\ listen_event' = "set"
                 THEN "rearmed"
                 ELSE IF listen_event' = "clear" THEN "none" ELSE resume
    /\ UNCHANGED << wsState, openPc, sent, audioVars, sink, processing_thread, chunk,
                    framesRead, chunkReadBlocked, fwdBlocked, sendFailed >>

\* __on_message(ws, message), the whole handler.
OnMessage(m) ==
    /\ openPc = "done"
    /\ wsState = "open"
    /\ (m.wellformed /\ m.type = AudioDelta) => Len(playback) < MaxDeltas
    /\ IF on_message_raises(m)
       THEN /\ lastOutcome' = "raised"
            /\ lastEvent' = IF m.wellformed /\ "type" \in m.keys THEN m.type ELSE "?"
            /\ UNCHANGED << listen_event, playback >>
       ELSE /\ lastOutcome' = "returned"
            /\ lastEvent' = m.type
            /\ listen_event' = on_message_gate(m.type, listen_event)
            /\ playback' = on_message_playback(m)
    /\ IF listen_event' # listen_event
       THEN blockedReads' = 0 /\ blockedSends' = 0
       ELSE UNCHANGED << blockedReads, blockedSends >>
    /\ resume' = IF processing_thread = "wait" /\ listen_event = "clear"
                    /\ listen_event' = "set"
                 THEN "rearmed"
                 ELSE IF listen_event' = "clear" THEN "none" ELSE resume
    /\ UNCHANGED << wsState, openPc, sent, audioVars, sink, processing_thread, chunk,
                    framesRead, chunkReadBlocked, fwdBlocked, sendFailed >>

OnMessageAny == \E m \in InboundMessages : OnMessage(m)

\* ------------------------------------------------------- __on_error
\* The transport reports a failure: the handler logs and returns.
OnError ==
    /\ openPc = "done"
    /\ wsState = "open"
    /\ wsState' = "errored"
    /\ UNCHANGED << openPc, sent, listen_event, audioVars, playback, sink, ghostIn,
                    captureVars >>

\* run_forever ends: the socket is closed (after an error, or by the peer).
Teardown ==
    /\ openPc = "done"
    /\ wsState \in {"open", "errored"}
    /\ wsState' = "closed"
    /\ UNCHANGED << openPc, sent, listen_event, audioVars, playback, sink, ghostIn,
                    captureVars >>

\* ------------------------------------------------- playback threads
\* play(), run by playback thread i: open an output stream of its own, write
\* audio_data to the device, stop and close the stream.
Play(i) ==
    /\ i \in DOMAIN playback
    /\ playback[i].pc = "started"
    /\ sink' = Append(sink, playback[i].audio_data)
    /\ playback' = [playback EXCEPT ![i].pc = "done"]
    /\ UNCHANGED << wsState, openPc, sent, listen_event, audioVars, ghostIn,
                    captureVars >>

PlayAny == \E i \in 1..Len(playback) : Play(i)

Next ==
    \/ OnOpenSend
    \/ OnOpenStartThread
    \/ OnOpenCreateEvent
    \/ OnOpenSetEvent
    \/ OnMessageAny
    \/ OnError
    \/ Teardown
    \/ ListenStartRecording
    \/ ListenWait
    \/ ListenRecord
    \/ ListenRecordError
    \/ ListenSend
    \/ ListenExcept
    \/ ListenFinally
    \/ PlayAny

Spec == Init /\ [][Next]_vars

\* The steps a started thread takes by itself: the callback flow inside
\* __on_open, the capture thread (a failing device read is the device's
\* choice, not a step the thread owes), each playback thread.
OnOpenStep == OnOpenSend \/ OnOpenStartThread \/ OnOpenCreateEvent \/ OnOpenSetEvent
ListenStep ==
    \/ ListenStartRecording \/ ListenWait \/ ListenRecord \/ ListenSend
    \/ ListenExcept \/ ListenFinally

\* Spec with every started thread scheduled fairly. Nothing obliges the server
\* to send a message or the connection to fail.
FairSpec ==
    /\ Spec
    /\ WF_vars(OnOpenStep)
    /\ WF_vars(ListenStep)
    /\ \A i \in 1..MaxDeltas : WF_vars(Play(i))

\* ------------------------------------------- AudioHandler on its own
\* The methods of AudioHandler called in any order by one caller.
nonAudioVars == << wsState, openPc, sent, listen_event, processing_thread, playback,
                  sink, ghostIn, chunkReadBlocked, fwdBlocked, sendFailed, blockedVars >>

ApiStartRecording ==
    /\ openStreams < MaxStreams
    /\ start_recording
    /\ UNCHANGED << nonAudioVars, chunk, framesRead >>

ApiStopRecording ==
    /\ staleStops < MaxStaleStops
    /\ stop_recording
    /\ UNCHANGED << nonAudioVars, chunk, framesRead >>

ApiRecordChunk ==
    /\ record_chunk
    /\ UNCHANGED << nonAudioVars, is_recording, stream, openStreams, staleStops >>

AudioNext == ApiStartRecording \/ ApiStopRecording \/ ApiRecordChunk

AudioSpec == Init /\ [][AudioNext]_vars

\* Everything but the record of the last inbound message.
programVars == << wsState, openPc, sent, listen_event, audioVars, playback, sink,
                  captureVars >>

SpeechStarted == "input_audio_buffer.speech_started"
SpeechStopped == "input_audio_buffer.speech_stopped"
ResponseDone == "response.done"

\* The handler has just returned from an inbound message of type t (and no other
\* inbound message has been handled since).
JustHandled(t) == lastEvent = t /\ lastOutcome = "returned"

\* ================================================================ C1
\* C1 as stated: whenever speech_started is the inbound event handled last, the
\* turn gate is blocked (cleared).
C1_Original == JustHandled(SpeechStarted) => listen_event = "clear"

\* C1 as amended: after the session is open, (a) handling speech_stopped leaves
\* the gate blocked; (b) a blocked gate stays blocked until a response.done is
\* handled - no other step of any flow releases it; (c) handling speech_started
\* changes nothing; (d) a repeated speech_stopped while blocked changes nothing.
C1_Amended ==
    [][ /\ \A m \in InboundMessages :
            OnMessage(m) =>
                /\ m.type = SpeechStopped => listen_event' = "clear"
                /\ m.type = SpeechStarted => UNCHANGED programVars
                /\ (m.type = SpeechStopped /\ listen_event = "clear")
                        => UNCHANGED programVars
        /\ (openPc = "done" /\ listen_event = "clear" /\ listen_event' # "clear")
            => \E m \in InboundMessages : m.type = ResponseDone /\ OnMessage(m)
      ]_vars

\* speech_started has been handled while the gate was blocked by an earlier
\* speech_stopped, with the capture loop suspended at the gate.
C1_Witness ==
    /\ JustHandled(SpeechStarted)
    /\ listen_event = "clear"
    /\ processing_thread = "wait"

\* ================================================================ C3
\* C3 as stated: whenever speech_stopped is the inbound event handled last, the
\* gate is capture-allowed (set); with no audio delta delivered the sink has no write.
C3_Original ==
    JustHandled(SpeechStopped) =>
        /\ listen_event = "set"
        /\ (playback = <<>> => sink = <<>>)

\* C3 as amended: whenever speech_stopped is the inbound event handled last, the
\* gate is blocked (cleared); with no audio delta delivered the sink has no write.
C3_Amended ==
    JustHandled(SpeechStopped) =>
        /\ listen_event = "clear"
        /\ (playback = <<>> => sink = <<>>)

\* speech_stopped handled last, no delta ever delivered, the capture loop has
\* already forwarded a frame and is now suspended at the gate.
C3_Witness ==
    /\ JustHandled(SpeechStopped)
    /\ playback = <<>>
    /\ Len(sent) > 1
    /\ processing_thread = "wait"

\* ================================================================ C4
\* C4: handling response.done leaves the gate capture-allowed, starts no
\* playback and writes nothing to the sink; handled while the gate is already
\* allowed it changes no program state at all.
C4_ResponseDoneRearms ==
    [][ \A m \in InboundMessages :
            (m.type = ResponseDone /\ OnMessage(m)) =>
                /\ listen_event' = "set"
                /\ lastOutcome' = "returned"
                /\ playback' = playback /\ sink' = sink
                /\ listen_event = "set" => UNCHANGED programVars
      ]_vars

\* response.done handled last, the gate allowed, and the capture loop past the
\* gate again after having been suspended behind a frame it forwarded.
C4_Witness ==
    /\ JustHandled(ResponseDone)
    /\ listen_event = "set"
    /\ processing_thread = "record"
    /\ framesRead > 0

\* ================================================================ C2
\* C2: no input_audio_buffer.append is ever sent for a frame that record_chunk
\* read while the turn gate was blocked.
C2_NoBlockedFrameForwarded == fwdBlocked = 0

\* ================================================================ C5
RECURSIVE Flatten(_)
\* The concatenation of a sequence of byte buffers.
Flatten(bufs) == IF bufs = <<>> THEN <<>> ELSE Head(bufs) \o Flatten(Tail(bufs))

\* The buffers handed to play_audio, in the order their deltas arrived.
Submitted == [i \in 1..Len(playback) |-> playback[i].audio_data]

AllPlayed == \A i \in 1..Len(playback) : playback[i].pc = "done"

\* C5: once the playback threads of the deltas received so far have finished,
\* the device writes, concatenated in the order they occurred, equal the
\* buffers concatenated in arrival order (d1+d2 for [delta(d1), delta(d2),
\* response.audio.done]).
C5_WritesInArrivalOrder ==
    (AllPlayed /\ Len(playback) >= 2) => Flatten(sink) = Flatten(Submitted)

\* ================================================================ C7
\* C7: handling a message whose type no branch names returns without raising
\* and changes no program state: the gate, the playback threads, the sink and
\* the wire are as before.
C7_UnknownTypeIsNoOp ==
    [][ \A m \in InboundMessages :
            (m.type \in UnknownTypes /\ OnMessage(m)) =>
                /\ lastOutcome' = "returned"
                /\ lastEvent' = m.type
                /\ UNCHANGED programVars
      ]_vars

\* A message of unknown type has been handled while the gate was blocked and a
\* playback thread was waiting to write.
C7_Witness ==
    /\ lastEvent \in UnknownTypes
    /\ lastOutcome = "returned"
    /\ listen_event = "clear"
    /\ \E i \in 1..Len(playback) : playback[i].pc = "started"

\* ================================================================ C8
\* The positions of the session.update messages on the wire.
SessionUpdatesSent == { i \in 1..Len(sent) : sent[i].type = "session.update" }

\* C8: at most one session.update is ever sent; once __on_open is past its
\* send, or the capture thread has been started, exactly one has been sent and
\* it is the first message on the wire, so it precedes every append.
C8_SessionUpdateOnceAndFirst ==
    /\ Cardinality(SessionUpdatesSent) <= 1
    /\ (openPc \notin {"send", "raised"} \/ processing_thread # "notStarted" \/ sent # <<>>)
        => SessionUpdatesSent = {1}
    /\ \A i \in 1..Len(sent) :
            sent[i].type = "input_audio_buffer.append" => (i > 1 /\ 1 \in SessionUpdatesSent)

\* The capture loop has forwarded two frames after the session.update.
C8_Witness ==
    /\ Len(sent) = 3
    /\ sent[2].type = "input_audio_buffer.append"
    /\ sent[3].type = "input_audio_buffer.append"

\* ================================================================ C9
\* C9: a send of the capture loop on a closed connection raises: the loop
\* leaves for its except clause and nothing is put on the wire; and once a
\* send of the capture loop has raised, no frame is read and no message is
\* sent any more.
C9_FailedSendStopsCapture ==
    [][ /\ (ListenSend /\ chunk # <<>> /\ wsState = "closed")
            => (processing_thread' = "except" /\ sendFailed' /\ sent' = sent)
        /\ sendFailed
            => /\ sent' = sent
               /\ framesRead' = framesRead
               /\ processing_thread' \in {"except", "finally", "done"}
      ]_vars

\* A send has failed on the closed connection before the device ran out of
\* frames, and the loop has ended with the capture stream closed.
C9_Witness ==
    /\ sendFailed
    /\ wsState = "closed"
    /\ framesRead < MaxFrames
    /\ processing_thread = "done"
    /\ stream = "closed"

\* ================================================================ C10
\* The capture loop is suspended at the blocked gate.
SuspendedAtGate == processing_thread = "wait" /\ listen_event = "clear"

\* C10: when a transport failure has been reported to __on_error while the
\* capture loop is suspended at the blocked gate, the loop is eventually released and ends with no capture
\* stream open.
C10_SessionEndReleasesCapture ==
    (wsState = "errored" /\ SuspendedAtGate)
        ~> (processing_thread = "done" /\ stream # "open")

\* ================================================================ C6
\* How many entries of the sequence q equal x.
Count(q, x) == Cardinality({ k \in DOMAIN q : q[k] = x })

\* The buffers of the playback threads that have finished.
Played(x) == { i \in DOMAIN playback : playback[i].pc = "done" /\ playback[i].audio_data = x }

\* C6: (a) handling a response.audio.delta that carries its delta hands exactly
\* the fragment the server encoded to one new playback thread, and handling any other message starts
\* none; the handler itself writes nothing; (b) the device has received each
\* buffer as many times as there are finished threads holding it - one write
\* per thread, none twice, none by anything else; (c) a playback thread that
\* has not run can always run, whatever the other flows do, and is never put
\* back or dropped, so that under fair scheduling it writes its buffer.
C6_EachDeltaWrittenOnce ==
    /\ [][ \A m \in InboundMessages :
            OnMessage(m) =>
                /\ sink' = sink
                /\ IF m \notin MalformedMessages /\ m.type = AudioDelta
                   THEN \E f \in Fragments :
                        /\ m.delta = b64encode(f)
                        /\ playback' = Append(playback, [audio_data |-> f, pc |-> "started"])
                   ELSE playback' = playback
         ]_vars
    /\ [](/\ \A x \in Fragments : Count(sink, x) = Cardinality(Played(x))
          /\ Len(sink) = Cardinality({ i \in DOMAIN playback : playback[i].pc = "done" })
          /\ \A i \in DOMAIN playback : playback[i].pc # "done" => ENABLED Play(i))
    /\ [][ \A i \in DOMAIN playback :
            /\ playback'[i].audio_data = playback[i].audio_data
            /\ playback[i].pc = "done" => playback'[i].pc = "done"
            /\ Play(i) => playback'[i].pc = "done"
         ]_vars

\* Two different fragments were delivered, then response.audio.done, and both
\* have been written.
C6_Witness ==
    /\ JustHandled("response.audio.done")
    /\ Len(playback) = 2
    /\ playback[1].audio_data # playback[2].audio_data
    /\ AllPlayed
    /\ Len(sink) = 2

\* ================================================================ C11
\* C11: handling a malformed message returns without raising and leaves the
\* turn gate, the playback threads and the sink as they were.
C11_MalformedIsDiscarded ==
    [][ \A m \in MalformedMessages :
            OnMessage(m) =>
                /\ lastOutcome' = "returned"
                /\ listen_event' = listen_event
                /\ playback' = playback /\ sink' = sink
      ]_vars

\* ================================================================ C12
\* C12: when __on_open has completed and no message has been handled yet, the
\* gate is capture-allowed; and the gate changes only in a step of the
\* callback flow (__on_open creating and setting it, __on_message): no step of
\* the capture thread or of a playback thread changes it.
C12_GateWrittenByCallbacksOnly ==
    /\ []((openPc = "done" /\ lastOutcome = "none") => listen_event = "set")
    /\ [][ /\ listen_event' # listen_event
                => (OnOpenCreateEvent \/ OnOpenSetEvent \/ OnMessageAny)
           /\ (ListenStep \/ ListenRecordError \/ PlayAny)
                => listen_event' = listen_event
         ]_vars

\* Start-up is complete, no message has arrived, and the capture loop has gone
\* through the gate twice, leaving it set.
C12_Witness ==
    /\ openPc = "done"
    /\ lastOutcome = "none"
    /\ listen_event = "set"
    /\ framesRead = 2
    /\ Len(sent) = 3

\* ================================================================ C13
\* C13: a stop_recording that follows a stop_recording, the second of the two
\* in the error path of __listen included, makes no stop_stream() or close()
\* call on the stream the first one closed.
C13_SecondStopTouchesNothing == staleStops = 0

\* ================================================================ C14
\* C14: start_recording called while recording is started leaves recording
\* started with exactly one capture stream open on the device.
C14_StartIsIdempotent ==
    [][ (ApiStartRecording /\ is_recording /\ stream = "open")
            => (is_recording' /\ stream' = "open" /\ openStreams' = 1)
      ]_vars

\* ================================================================ C15
\* C15: within one blocked interval of the gate the capture loop makes at most
\* one device read and sends at most one append, and once it has sent it the
\* loop is suspended at the gate (or gone), not on its way to another frame.
C15_AtMostOneFrameWhileBlocked ==
    listen_event = "clear" =>
        /\ blockedReads <= 1
        /\ blockedSends <= 1
        /\ blockedSends = 1 => processing_thread \in {"wait", "except", "finally", "done"}

\* One frame went through before the gate was blocked, the frame whose cycle
\* had passed the gate was sent while it was blocked, and the loop is suspended.
C15_Witness ==
    /\ listen_event = "clear"
    /\ blockedSends = 1
    /\ Len(sent) = 3
    /\ processing_thread = "wait"

\* ================================================================ C16
\* C16: while the connection is open the inbound handler can handle any next
\* message at once, whatever the capture thread and the playback threads are
\* doing (a delta only up to the number of deltas modelled); handling a delta
\* starts a playback thread and writes nothing itself; and a capture loop at
\* the gate goes on as soon as the gate is set.
C16_InboundNeverWaits ==
    /\ []((openPc = "done" /\ wsState = "open") =>
            \A m \in InboundMessages :
                ((m.type = AudioDelta /\ m.wellformed) => Len(playback) < MaxDeltas)
                    => ENABLED OnMessage(m))
    /\ []((processing_thread = "wait" /\ listen_event = "set") => ENABLED ListenWait)
    /\ [][ \A m \in InboundMessages :
            (OnMessage(m) /\ m.type = AudioDelta /\ m \notin MalformedMessages)
                => (sink' = sink /\ Len(playback') = Len(playback) + 1)
         ]_vars

\* The capture loop is suspended at the gate and a device write is outstanding,
\* while the connection is open for the next inbound message.
C16_Witness ==
    /\ wsState = "open"
    /\ SuspendedAtGate
    /\ openPc = "done"
    /\ \E i \in DOMAIN playback : playback[i].pc = "started"

\* ================================================================ C17
\* C17: while the capture loop is suspended at the blocked gate no step reads
\* the device or sends; handling response.done then sets the gate; and from
\* there, as long as the gate stays set, each step of the loop up to the send of
\* a further frame can be taken: the wait returns, the read is taken while the
\* device yields frames and gives a frame, and the send on an open connection
\* puts that frame on the wire.
C17_RearmResumesCapture ==
    /\ [][ SuspendedAtGate => (framesRead' = framesRead /\ sent' = sent) ]_vars
    /\ [][ (SuspendedAtGate /\ OnMessage(Msg(ResponseDone, {"type"}, <<>>)))
              => (listen_event' = "set" /\ processing_thread' = "wait") ]_vars
    /\ [](resume = "rearmed" =>
            /\ listen_event = "set"
            /\ processing_thread = "wait" => ENABLED ListenWait
            /\ (processing_thread = "record" /\ framesRead < MaxFrames) =>
                    (stream = "open" /\ is_recording /\ ENABLED ListenRecord)
            /\ processing_thread = "send" => (chunk # <<>> /\ ENABLED ListenSend))
    /\ [][ (resume = "rearmed" /\ ListenWait) => processing_thread' = "record" ]_vars
    /\ [][ (resume = "rearmed" /\ ListenRecord) =>
                (chunk' # <<>> /\ framesRead' = framesRead + 1) ]_vars
    /\ [][ (resume = "rearmed" /\ ListenSend /\ wsState = "open") =>
                (sent' = Append(sent, AudioAppend(chunk)) /\ resume' = "sent") ]_vars

\* The loop was suspended at the blocked gate, response.done was handled, and a
\* further frame has gone out since, the gate being set throughout.
C17_Witness ==
    /\ resume = "sent"
    /\ listen_event = "set"
    /\ framesRead = 2
    /\ Len(sent) = 3

\* ================================================================ C18
\* C18: when the flow of the capture loop has ended, on any exit path, the
\* capture stream is stopped and closed, recording is off and no capture stream
\* is open on the device; and the release steps of the except and finally
\* blocks can always be taken and end the flow.
C18_ExitReleasesDevice ==
    /\ [](processing_thread = "done" =>
            (stream = "closed" /\ ~is_recording /\ openStreams = 0))
    /\ [](processing_thread = "except" => ENABLED ListenExcept)
    /\ [](processing_thread = "finally" => ENABLED ListenFinally)
    /\ [][ ListenExcept => (processing_thread' = "finally" /\ stream' = "closed") ]_vars
    /\ [][ ListenFinally => (processing_thread' = "done" /\ stream' = "closed") ]_vars

\* The loop has ended on an error of the device read, after a frame had been
\* read and no send had failed; the finally block stopped the closed stream again.
C18_Witness ==
    /\ processing_thread = "done"
    /\ ~sendFailed
    /\ framesRead = 1
    /\ staleStops = 1
    /\ stream = "closed"

\* ================================================================ C19
\* C19: the captured audio held by the program never exceeds one frame, however
\* many frames have been read.
C19_FrameIsTransient ==
    \E n \in 1..Len(DeviceFrames) : Len(audio_buffer) <= Len(DeviceFrames[n])

\* ================================================================ C20
\* C20: the capture thread never executes its wait on the turn gate while the
\* gate object does not exist yet.
C20_GateExistsBeforeWait ==
    [][ ListenWait => listen_event # "absent" ]_vars

====
